---------------------------- MODULE Spec2Model ----------------------------
(***************************************************************************)
(* State-machine model of the Match Day backend (src/main.py): the entity  *)
(* store (players, partite, formazioni, gol), the request handlers that    *)
(* read and write it, the photo assets on the image host and on the local  *)
(* disk, and the rating calculator.                                        *)
(*                                                                         *)
(* Conventions                                                             *)
(*  - An Optional[T] value is a set with at most one element: {} is None.  *)
(*  - Player ids (uuid4 strings) and the integer keys are naturals handed  *)
(*    out by counters and never reused.  Player id 0 stands for the empty  *)
(*    string "", which names no player.                                    *)
(*  - The store is the relational database the engine of line 50 binds:    *)
(*    the tables hold committed rows; a session's uncommitted work lives   *)
(*    in the request's own transaction until commit or rollback.           *)
(***************************************************************************)
EXTENDS Integers, Sequences, FiniteSets, TLC

VARIABLES
    players,      \* committed table "players": id -> row
    partite,      \* committed table "partite": id -> row
    formazioni,   \* committed table "formazioni": set of rows
    gol,          \* committed table "gol": set of rows
    seqs,         \* id generators: [player, partita, formazione, gol]
    now,          \* the wall clock read by datetime.utcnow()
    reqs,         \* in-flight multi-statement requests: slot -> request state
    resp,         \* the response of the request that finished last
    assets        \* the photo assets: [remote, local], each name -> bytes

vars == <<players, partite, formazioni, gol, seqs, now, reqs, resp, assets>>

----------------------------------------------------------------------------
(* Bounds of the model *)

MaxClock == 1          \* the clock stops advancing here

----------------------------------------------------------------------------
(* Enumerations and column defaults *)

Roles == {"GOALKEEPER", "DEFENDER", "MIDFIELDER", "FORWARD"}

SkillNames == {"speed", "passing", "attack", "defense", "technique",
               "goalkeeping", "heading", "stamina", "leadership"}

CounterNames == {"goals_scored", "assists", "gold_medals", "silver_medals",
                 "bronze_medals"}

\* Field(ge=1, le=10, default=5)
SkillMin == 1
SkillMax == 10
SkillDefault == 5

\* db_player.goalkeeping = 8 for a goalkeeper at creation
GoalkeeperDefault == 8

None == {}

Some(v) == {v}

IsNone(o) == o = {}

\* The value of a non-None optional.
The(o) == CHOOSE v \in o : TRUE

----------------------------------------------------------------------------
(* Rating calculator *)

\* Python's int(n / d) for integers n and d > 0: true division, then
\* truncation toward zero.
IntOfQuotient(n, d) == IF n >= 0 THEN n \div d ELSE -((-n) \div d)

calculate_overall_rating_div8(player) ==
    IF player.role = "GOALKEEPER" THEN
        IntOfQuotient(player.goalkeeping * 3 + player.defense * 2
                      + player.technique + player.leadership, 8)
    ELSE IF player.role = "DEFENDER" THEN
        IntOfQuotient(player.defense * 3 + player.heading * 2 + player.passing
                      + player.stamina + player.leadership, 8)
    ELSE IF player.role = "MIDFIELDER" THEN
        IntOfQuotient(player.passing * 2 + player.technique * 2 + player.stamina
                      + player.attack + player.defense + player.leadership, 8)
    ELSE
        IntOfQuotient(player.attack * 3 + player.speed * 2 + player.technique
                      + player.heading + player.stamina, 8)

calculate_overall_rating(player) ==
    IF player.role = "GOALKEEPER" THEN
        IntOfQuotient(player.goalkeeping * 3 + player.defense * 2
                      + player.technique + player.leadership, 7)
    ELSE IF player.role = "DEFENDER" THEN
        IntOfQuotient(player.defense * 3 + player.heading * 2 + player.passing
                      + player.stamina + player.leadership, 8)
    ELSE IF player.role = "MIDFIELDER" THEN
        IntOfQuotient(player.passing * 2 + player.technique * 2 + player.stamina
                      + player.attack + player.defense + player.leadership, 8)
    ELSE
        IntOfQuotient(player.attack * 3 + player.speed * 2 + player.technique
                      + player.heading + player.stamina, 8)

----------------------------------------------------------------------------
(* Players *)

\* PlayerSkills(...): a request's skills object, each skill left out of the
\* request taking the field's default.
PlayerSkills(supplied) ==
    [s \in SkillNames |-> IF IsNone(supplied[s]) THEN SkillDefault
                          ELSE The(supplied[s])]

\* A skills object that supplies nothing.
NoSkills == [s \in SkillNames |-> None]

\* The nine skill columns of a row as a skills object.
SkillsOf(row) == [s \in SkillNames |-> row[s]]

\* PlayerDetail(...) as get_player builds it.
PlayerDetail(id, row) ==
    [id |-> id, name |-> row.name, role |-> row.role,
     photo_url |-> row.photo_url, skills |-> SkillsOf(row),
     created_at |-> row.created_at, updated_at |-> row.updated_at,
     overall_rating |-> calculate_overall_rating(row),
     goals_scored |-> row.goals_scored, assists |-> row.assists,
     gold_medals |-> row.gold_medals, silver_medals |-> row.silver_medals,
     bronze_medals |-> row.bronze_medals]

\* The response get_player(player_id) produces on the committed store.
get_player_response(id) ==
    IF id \notin DOMAIN players
    THEN [op |-> "get_player", id |-> id, status |-> 404, body |-> "Player not found"]
    ELSE [op |-> "get_player", id |-> id, status |-> 200,
          body |-> PlayerDetail(id, players[id])]

get_player(id) ==
    /\ resp' = get_player_response(id)
    /\ UNCHANGED <<players, partite, formazioni, gol, seqs, now, reqs, assets>>

\* A read of datetime.utcnow(): the clock has moved on to t.
ClockReads == {t \in now..(now + 1) : t <= MaxClock}

\* PlayerDB(...) as create_player fills it, before the goalkeeper override; the
\* two timestamps come from the column defaults at INSERT, read in this order.
NewPlayerRow(player, t1, t2) ==
    LET skills == PlayerSkills(player.skills) IN
    [name |-> player.name, role |-> player.role, photo_url |-> None,
     speed |-> skills.speed, passing |-> skills.passing,
     attack |-> skills.attack, defense |-> skills.defense,
     technique |-> skills.technique, goalkeeping |-> skills.goalkeeping,
     heading |-> skills.heading, stamina |-> skills.stamina,
     leadership |-> skills.leadership,
     created_at |-> t1, updated_at |-> t2,
     goals_scored |-> player.goals_scored, assists |-> player.assists,
     gold_medals |-> player.gold_medals, silver_medals |-> player.silver_medals,
     bronze_medals |-> player.bronze_medals]

GoalkeeperOverride_none(row) == row

\* "Set default extended skills based on role"
GoalkeeperOverride(row) ==
    IF row.role = "GOALKEEPER"
    THEN [row EXCEPT !.goalkeeping = GoalkeeperDefault]
    ELSE row

\* Player(...) as create_player returns it.
PlayerModel(id, row) ==
    [id |-> id, name |-> row.name, role |-> row.role,
     photo_url |-> row.photo_url, skills |-> SkillsOf(row),
     created_at |-> row.created_at, updated_at |-> row.updated_at,
     goals_scored |-> row.goals_scored, assists |-> row.assists,
     gold_medals |-> row.gold_medals, silver_medals |-> row.silver_medals,
     bronze_medals |-> row.bronze_medals]

create_player(player) ==
    /\ \E t1 \in ClockReads : \E t2 \in {t \in t1..(t1 + 1) : t <= MaxClock} :
         LET id == seqs.player + 1
             row == GoalkeeperOverride(NewPlayerRow(player, t1, t2))
         IN /\ players' = [i \in DOMAIN players \cup {id} |->
                              IF i = id THEN row ELSE players[i]]
            /\ seqs' = [seqs EXCEPT !.player = id]
            /\ now' = t2
            /\ resp' = [op |-> "create_player", status |-> 200, request |-> player,
                        body |-> PlayerModel(id, row)]
    /\ UNCHANGED <<partite, formazioni, gol, reqs, assets>>

ApplySkills_always(row, player_update) ==
    LET skills == PlayerSkills(IF IsNone(player_update.skills) THEN NoSkills
                               ELSE The(player_update.skills)) IN
    [row EXCEPT !.speed = skills.speed, !.passing = skills.passing,
                !.attack = skills.attack, !.defense = skills.defense,
                !.technique = skills.technique,
                !.goalkeeping = skills.goalkeeping,
                !.heading = skills.heading, !.stamina = skills.stamina,
                !.leadership = skills.leadership]

\* "if player_update.skills is not None": every skill column is assigned from
\* the request's skills object.
ApplySkills(row, player_update) ==
    IF IsNone(player_update.skills) THEN row
    ELSE LET skills == PlayerSkills(The(player_update.skills)) IN
         [row EXCEPT !.speed = skills.speed, !.passing = skills.passing,
                     !.attack = skills.attack, !.defense = skills.defense,
                     !.technique = skills.technique,
                     !.goalkeeping = skills.goalkeeping,
                     !.heading = skills.heading, !.stamina = skills.stamina,
                     !.leadership = skills.leadership]

\* The "is not None" assignments of the five counters.
ApplyCounters(row, player_update) ==
    [f \in DOMAIN row |->
        IF f \in CounterNames /\ ~IsNone(player_update[f])
        THEN The(player_update[f]) ELSE row[f]]

\* The row update_player commits: the supplied fields, then updated_at.
UpdatedPlayerRow(row, player_update, t) ==
    LET r1 == IF IsNone(player_update.name) THEN row
              ELSE [row EXCEPT !.name = The(player_update.name)]
        r2 == IF IsNone(player_update.role) THEN r1
              ELSE [r1 EXCEPT !.role = The(player_update.role)]
        r3 == ApplySkills(r2, player_update)
        r4 == ApplyCounters(r3, player_update)
    IN [r4 EXCEPT !.updated_at = t]

update_player(player_id, player_update) ==
    IF player_id \notin DOMAIN players
    THEN /\ resp' = [op |-> "update_player", id |-> player_id, status |-> 404,
                     request |-> player_update, body |-> "Player not found"]
         /\ UNCHANGED <<players, partite, formazioni, gol, seqs, now, reqs, assets>>
    ELSE \E t \in ClockReads :
         LET row == UpdatedPlayerRow(players[player_id], player_update, t) IN
         /\ players' = [players EXCEPT ![player_id] = row]
         /\ now' = t
         /\ resp' = [op |-> "update_player", id |-> player_id, status |-> 200,
                     request |-> player_update, before |-> players[player_id],
                     body |-> PlayerDetail(player_id, row)]
         /\ UNCHANGED <<partite, formazioni, gol, seqs, reqs, assets>>

----------------------------------------------------------------------------
(* Partite *)

PartitaFields ==
    {"data_partita", "ora_inizio", "nome_squadra_a", "nome_squadra_b",
     "gol_squadra_a", "gol_squadra_b", "stadio", "arbitro", "note",
     "numero_giocatori_squadra"}

\* time.strftime("%H:%M:%S") of a time <<hour, minute, second, microsecond>>:
\* the microsecond is not part of the text.
strftime(t) == <<t[1], t[2], t[3]>>

\* PartitaDB(...) as create_partita fills it: every column is given, a None
\* included, so no column default applies.
NewPartitaRow(partita) ==
    [f \in PartitaFields |->
        IF f = "ora_inizio" /\ ~IsNone(partita[f])
        THEN Some(strftime(The(partita[f])))
        ELSE partita[f]]

\* The setattr loop over model_dump(exclude_unset=True): the keys the request
\* carries, an explicit null included.
UpdatedPartitaRow(row, partita_update) ==
    [f \in PartitaFields |->
        IF f \notin partita_update.fields_set THEN row[f]
        ELSE IF f = "ora_inizio" /\ ~IsNone(partita_update.values[f])
        THEN Some(strftime(The(partita_update.values[f])))
        ELSE partita_update.values[f]]

\* data_partita is nullable=False: the UPDATE of a row that sets it to NULL
\* raises at commit, which update_partita does not catch.
update_partita(partita_id, partita_update) ==
    IF partita_id \notin DOMAIN partite
    THEN /\ resp' = [op |-> "update_partita", id |-> partita_id, status |-> 404,
                     request |-> partita_update, body |-> "Partita not found"]
         /\ UNCHANGED <<players, partite, formazioni, gol, seqs, now, reqs, assets>>
    ELSE LET row == UpdatedPartitaRow(partite[partita_id], partita_update) IN
         IF IsNone(row.data_partita)
         THEN /\ resp' = [op |-> "update_partita", id |-> partita_id,
                          status |-> 500, request |-> partita_update,
                          before |-> partite[partita_id],
                          body |-> "IntegrityError"]
              /\ UNCHANGED <<players, partite, formazioni, gol, seqs, now, reqs, assets>>
         ELSE /\ partite' = [partite EXCEPT ![partita_id] = row]
              /\ resp' = [op |-> "update_partita", id |-> partita_id,
                          status |-> 200, request |-> partita_update,
                          before |-> partite[partita_id], body |-> row]
              /\ UNCHANGED <<players, formazioni, gol, seqs, now, reqs, assets>>

----------------------------------------------------------------------------
(* Sessions and transactions                                                *)
(*                                                                          *)
(* get_db hands every request its own Session (autocommit=False,            *)
(* autoflush=False).  A statement reads the committed tables and the        *)
(* session's own uncommitted rows; what a session deleted or flushed is     *)
(* applied to the tables by commit and dropped by rollback or close.  A     *)
(* row a session deleted stays locked until that session ends, and the      *)
(* unique index makes an INSERT wait for any session holding an             *)
(* uncommitted row with the same key.                                       *)

MaxBatch == 2          \* entries in one lineup request body
MaxFormazioni == 4     \* INSERTs into formazioni served (ids 1..MaxFormazioni)
MaxGol == 1            \* INSERTs into gol served (ids 1..MaxGol)

\* The sessions of the requests served at the same time.
Sessions == {1, 2}

Range(seq) == {seq[i] : i \in 1..Len(seq)}

\* UniqueConstraint('partita_id', 'giocatore_id')
KeyOf(x) == <<x.partita_id, x.giocatore_id>>

Keys(rows) == {KeyOf(x) : x \in rows}

\* FormazioneDB(...) with the id the sequence hands to the INSERT.
FormazioneRow(id, formazione) ==
    [id |-> id, partita_id |-> formazione.partita_id,
     giocatore_id |-> formazione.giocatore_id, squadra |-> formazione.squadra,
     numero_maglia |-> formazione.numero_maglia,
     capitano |-> formazione.capitano]

\* The rows of a match in the committed table.
LineupOf(partita_id) == {f \in formazioni : f.partita_id = partita_id}

\* The rows a session has flushed and not committed: update_formazioni_by_partita
\* flushes, create_formazione commits each row as it adds it.
Flushed(q) ==
    IF q.op = "update_formazioni_by_partita" THEN Range(q.created) ELSE {}

\* The sessions whose end an INSERT of `key` by session r waits for.
InsertWaitsFor(r, key) ==
    {r2 \in DOMAIN reqs \ {r} :
        key \in Keys(reqs[r2].deleted \cup Flushed(reqs[r2]))}

\* The sessions that hold a lock on one of `rows`.
LockHolders(r, rows) ==
    {r2 \in DOMAIN reqs \ {r} : reqs[r2].deleted \cap rows # {}}

UniqueViolation_off(r, key) == FALSE

\* The unique index refuses `key` to session r: a row with that key is
\* committed and not deleted by r, or r has flushed one itself.
UniqueViolation(r, key) ==
    key \in Keys((formazioni \ reqs[r].deleted) \cup Flushed(reqs[r]))

\* ForeignKey('partite.id'), ForeignKey('players.id') on an inserted row.
ForeignKeyViolation(row) ==
    \/ row.partita_id \notin DOMAIN partite
    \/ row.giocatore_id \notin DOMAIN players

\* The entry a request is at.
CurrentEntry(q) == q.request[q.k + 1]

\* What the statement session r is blocked in waits for.
WaitsFor(r) ==
    IF r \notin DOMAIN reqs THEN {}
    ELSE IF reqs[r].pc = "insert"
         THEN InsertWaitsFor(r, KeyOf(CurrentEntry(reqs[r])))
    ELSE IF reqs[r].pc = "delete_wait"
         THEN LockHolders(r, reqs[r].target \cap formazioni)
    ELSE {}

RECURSIVE WaitClosure(_, _)
WaitClosure(set, n) ==
    IF n = 0 THEN set
    ELSE WaitClosure(set \cup UNION {WaitsFor(x) : x \in set}, n - 1)

\* Session r waits, directly or not, for itself.
Deadlocked(r) == r \in WaitClosure(WaitsFor(r), Cardinality(Sessions))

\* No photo is stored, on the image host or under uploads/players.
NoAssets == [remote |-> <<>>, local |-> <<>>]

\* No response is held: a request has just been accepted.
NoResponse == [op |-> "none", status |-> 0]

\* A new request state.
NewRequest(op, partita_id, formazioni_in, pc) ==
    [op |-> op, partita_id |-> partita_id, request |-> formazioni_in, k |-> 0,
     pc |-> pc, target |-> {}, deleted |-> {}, created |-> <<>>]

\* The request of session r ends with `response`; its session is closed.
Finish(r, response) ==
    /\ reqs' = [x \in DOMAIN reqs \ {r} |-> reqs[x]]
    /\ resp' = response

\* The response of a lineup request that ends at its current entry;
\* `failed` and `entry` are the entry it failed at.
LineupResponse(q, status, body) ==
    [op |-> q.op, status |-> status, partita_id |-> q.partita_id,
     failed |-> IF status = 200 THEN 0 ELSE q.k + 1,
     entry |-> IF status = 200 \/ q.k = Len(q.request) THEN None
               ELSE Some(CurrentEntry(q)),
     body |-> body]

\* The committed table after session q commits.
AfterCommit(q) == (formazioni \ q.deleted) \cup Flushed(q)

AfterRollback_all(q) == formazioni \ Range(q.created)

AfterRollback_keeps(q) == (formazioni \ q.deleted) \cup Flushed(q)

\* The committed table after session q rolls back, by db.rollback() or by the
\* db.close() of get_db when the handler raised without it.
AfterRollback(q) == formazioni

----------------------------------------------------------------------------
(* Formazioni *)

create_formazione_start(r, formazioni_in) ==
    /\ r \notin DOMAIN reqs
    /\ reqs' = [x \in DOMAIN reqs \cup {r} |->
                   IF x = r
                   THEN NewRequest("create_formazione", 0, formazioni_in, "check")
                   ELSE reqs[x]]
    /\ resp' = NoResponse
    /\ UNCHANGED <<players, partite, formazioni, gol, seqs, now, assets>>

\* The two existence lookups of one loop iteration, or the return after the
\* last one.
create_formazione_check(r) ==
    /\ r \in DOMAIN reqs
    /\ reqs[r].op = "create_formazione"
    /\ reqs[r].pc = "check"
    /\ LET q == reqs[r] IN
       IF q.k = Len(q.request)
       THEN Finish(r, LineupResponse(q, 200, q.created))
       ELSE IF CurrentEntry(q).partita_id \notin DOMAIN partite
       THEN Finish(r, LineupResponse(q, 404, "Partita not found"))
       ELSE IF CurrentEntry(q).giocatore_id \notin DOMAIN players
       THEN Finish(r, LineupResponse(q, 404, "Giocatore not found"))
       ELSE /\ reqs' = [reqs EXCEPT ![r].pc = "insert"]
            /\ UNCHANGED resp
    /\ UNCHANGED <<players, partite, formazioni, gol, seqs, now, assets>>

\* db.add, db.commit, db.refresh of one loop iteration, and the except branch.
create_formazione_insert(r) ==
    /\ r \in DOMAIN reqs
    /\ reqs[r].op = "create_formazione"
    /\ reqs[r].pc = "insert"
    /\ seqs.formazione < MaxFormazioni
    /\ InsertWaitsFor(r, KeyOf(CurrentEntry(reqs[r]))) = {}
    /\ LET q == reqs[r]
           row == FormazioneRow(seqs.formazione + 1, CurrentEntry(q))
       IN /\ seqs' = [seqs EXCEPT !.formazione = @ + 1]
          /\ IF UniqueViolation(r, KeyOf(row)) \/ ForeignKeyViolation(row)
             THEN /\ formazioni' = AfterRollback(q)
                  /\ Finish(r, LineupResponse(q, 400, "Error creating formazione"))
             ELSE /\ formazioni' = formazioni \cup {row}
                  /\ reqs' = [reqs EXCEPT ![r].created = Append(@, row),
                                          ![r].k = @ + 1,
                                          ![r].pc = "check"]
                  /\ UNCHANGED resp
    /\ UNCHANGED <<players, partite, gol, now, assets>>

delete_formazione(formazione_id) ==
    LET found == {f \in formazioni : f.id = formazione_id} IN
    /\ LockHolders(0, found) = {}
    /\ IF found = {}
       THEN /\ resp' = [op |-> "delete_formazione", id |-> formazione_id,
                        status |-> 404, body |-> "Formazione not found"]
            /\ UNCHANGED formazioni
       ELSE /\ formazioni' = formazioni \ found
            /\ resp' = [op |-> "delete_formazione", id |-> formazione_id,
                        status |-> 200, deleted |-> found,
                        body |-> "Formazione deleted successfully"]
    /\ UNCHANGED <<players, partite, gol, seqs, now, reqs, assets>>

\* The response get_formazioni_by_partita(partita_id) produces on the
\* committed store: the rows of the match, each with its player.
get_formazioni_by_partita_response(partita_id) ==
    LET formazioni_db == LineupOf(partita_id) IN
    IF formazioni_db = {}
    THEN [op |-> "get_formazioni_by_partita", partita_id |-> partita_id,
          status |-> 404, body |-> {}]
    ELSE IF \E f \in formazioni_db : f.giocatore_id \notin DOMAIN players
    THEN [op |-> "get_formazioni_by_partita", partita_id |-> partita_id,
          status |-> 500, body |-> {}]
    ELSE [op |-> "get_formazioni_by_partita", partita_id |-> partita_id,
          status |-> 200,
          body |-> {[formazione |-> f,
                     giocatore |-> PlayerModel(f.giocatore_id,
                                               players[f.giocatore_id])] :
                    f \in formazioni_db}]

get_formazioni_by_partita(partita_id) ==
    /\ resp' = get_formazioni_by_partita_response(partita_id)
    /\ UNCHANGED <<players, partite, formazioni, gol, seqs, now, reqs, assets>>

\* The lookup of the match that opens update_formazioni_by_partita.
update_formazioni_start(r, partita_id, formazioni_in) ==
    /\ r \notin DOMAIN reqs
    /\ LET q == NewRequest("update_formazioni_by_partita", partita_id,
                           formazioni_in, "delete")
       IN IF partita_id \notin DOMAIN partite
          THEN /\ resp' = [LineupResponse(q, 404, "Partita not found")
                             EXCEPT !.failed = 0, !.entry = None]
               /\ UNCHANGED reqs
          ELSE /\ reqs' = [x \in DOMAIN reqs \cup {r} |->
                              IF x = r THEN q ELSE reqs[x]]
               /\ resp' = NoResponse
    /\ UNCHANGED <<players, partite, formazioni, gol, seqs, now, assets>>

BulkDelete_committed(q, rows) ==
    [table |-> formazioni \ rows,
     q |-> [q EXCEPT !.target = {}, !.deleted = {}, !.pc = "check"]]

\* query(FormazioneDB).filter(...).delete() inside the session's transaction:
\* the rows are deleted for this session only.
BulkDelete(q, rows) ==
    [table |-> formazioni,
     q |-> [q EXCEPT !.target = {}, !.deleted = rows, !.pc = "check"]]

\* The DELETE statement: it takes the rows of the match it sees, and waits
\* when another session holds one of them.
update_formazioni_delete(r) ==
    /\ r \in DOMAIN reqs
    /\ reqs[r].op = "update_formazioni_by_partita"
    /\ reqs[r].pc = "delete"
    /\ LET q == reqs[r]
           rows == LineupOf(q.partita_id)
       IN IF LockHolders(r, rows) = {}
          THEN /\ formazioni' = BulkDelete(q, rows).table
               /\ reqs' = [reqs EXCEPT ![r] = BulkDelete(q, rows).q]
          ELSE /\ reqs' = [reqs EXCEPT ![r].target = rows,
                                       ![r].pc = "delete_wait"]
               /\ UNCHANGED formazioni
    /\ UNCHANGED <<players, partite, gol, seqs, now, resp, assets>>

\* The waiting DELETE goes on once the rows it took are free: it deletes
\* those of them that are still there.
update_formazioni_delete_resume(r) ==
    /\ r \in DOMAIN reqs
    /\ reqs[r].op = "update_formazioni_by_partita"
    /\ reqs[r].pc = "delete_wait"
    /\ LET q == reqs[r]
           rows == q.target \cap formazioni
       IN /\ LockHolders(r, rows) = {}
          /\ formazioni' = BulkDelete(q, rows).table
          /\ reqs' = [reqs EXCEPT ![r] = BulkDelete(q, rows).q]
    /\ UNCHANGED <<players, partite, gol, seqs, now, resp, assets>>

\* The validation and the player lookup of one loop iteration, or the commit
\* after the last one.
update_formazioni_check(r) ==
    /\ r \in DOMAIN reqs
    /\ reqs[r].op = "update_formazioni_by_partita"
    /\ reqs[r].pc = "check"
    /\ LET q == reqs[r] IN
       IF q.k = Len(q.request)
       THEN /\ formazioni' = AfterCommit(q)
            /\ Finish(r, LineupResponse(q, 200, q.created))
       ELSE IF CurrentEntry(q).partita_id # q.partita_id
       THEN /\ formazioni' = AfterRollback(q)
            /\ Finish(r, LineupResponse(q, 400, "partita_id must match"))
       ELSE IF CurrentEntry(q).giocatore_id \notin DOMAIN players
       THEN /\ formazioni' = AfterRollback(q)
            /\ Finish(r, LineupResponse(q, 404, "Giocatore not found"))
       ELSE /\ reqs' = [reqs EXCEPT ![r].pc = "insert"]
            /\ UNCHANGED <<formazioni, resp>>
    /\ UNCHANGED <<players, partite, gol, seqs, now, assets>>

\* db.add and db.flush of one loop iteration, and the except branch.
update_formazioni_insert(r) ==
    /\ r \in DOMAIN reqs
    /\ reqs[r].op = "update_formazioni_by_partita"
    /\ reqs[r].pc = "insert"
    /\ seqs.formazione < MaxFormazioni
    /\ InsertWaitsFor(r, KeyOf(CurrentEntry(reqs[r]))) = {}
    /\ LET q == reqs[r]
           row == FormazioneRow(seqs.formazione + 1, CurrentEntry(q))
       IN /\ seqs' = [seqs EXCEPT !.formazione = @ + 1]
          /\ IF UniqueViolation(r, KeyOf(row)) \/ ForeignKeyViolation(row)
             THEN /\ formazioni' = AfterRollback(q)
                  /\ Finish(r, LineupResponse(q, 400, "Error creating formazione"))
             ELSE /\ reqs' = [reqs EXCEPT ![r].created = Append(@, row),
                                          ![r].k = @ + 1,
                                          ![r].pc = "check"]
                  /\ UNCHANGED <<formazioni, resp>>
    /\ UNCHANGED <<players, partite, gol, now, assets>>

\* The flush of a session that waits in a cycle of waiting sessions raises
\* (the database ends the deadlock by failing one of the statements).
update_formazioni_deadlock(r) ==
    /\ r \in DOMAIN reqs
    /\ reqs[r].op = "update_formazioni_by_partita"
    /\ reqs[r].pc = "insert"
    /\ Deadlocked(r)
    /\ formazioni' = AfterRollback(reqs[r])
    /\ Finish(r, LineupResponse(reqs[r], 400, "Error creating formazione"))
    /\ UNCHANGED <<players, partite, gol, seqs, now, assets>>

----------------------------------------------------------------------------
(* Gol *)

\* The empty string as a player id.
EmptyString == 0

\* Python's truth value of an Optional[str].
Truthy(o) == ~IsNone(o) /\ The(o) # EmptyString

GolRow(id, g) ==
    [id |-> id, partita_id |-> g.partita_id, giocatore_id |-> g.giocatore_id,
     minuto |-> g.minuto, squadra |-> g.squadra, tipo_gol |-> g.tipo_gol,
     assist_giocatore_id |-> g.assist_giocatore_id]

\* ForeignKey('players.id') on the nullable assist_giocatore_id.
AssistForeignKeyViolation(g) ==
    /\ ~IsNone(g.assist_giocatore_id)
    /\ The(g.assist_giocatore_id) \notin DOMAIN players

create_gol_response(g) ==
    IF g.partita_id \notin DOMAIN partite
    THEN [op |-> "create_gol", status |-> 404, request |-> g,
          body |-> "Partita not found"]
    ELSE IF g.giocatore_id \notin DOMAIN players
    THEN [op |-> "create_gol", status |-> 404, request |-> g,
          body |-> "Giocatore not found"]
    ELSE IF Truthy(g.assist_giocatore_id)
            /\ The(g.assist_giocatore_id) \notin DOMAIN players
    THEN [op |-> "create_gol", status |-> 404, request |-> g,
          body |-> "Assist player not found"]
    ELSE IF AssistForeignKeyViolation(g)
    THEN [op |-> "create_gol", status |-> 500, request |-> g,
          body |-> "IntegrityError"]
    ELSE [op |-> "create_gol", status |-> 200, request |-> g,
          body |-> GolRow(seqs.gol + 1, g)]

\* The sequence hands out an id to every INSERT, the refused one included.
create_gol(g) ==
    /\ seqs.gol < MaxGol
    /\ resp' = create_gol_response(g)
    /\ gol' = IF resp'.status = 200 THEN gol \cup {resp'.body} ELSE gol
    /\ seqs' = IF resp'.status \in {200, 500}
               THEN [seqs EXCEPT !.gol = @ + 1] ELSE seqs
    /\ UNCHANGED <<players, partite, formazioni, now, reqs, assets>>

get_gol_by_partita_response_strict(partita_id) ==
    IF partita_id \notin DOMAIN partite
       \/ {g \in gol : g.partita_id = partita_id} = {}
    THEN [op |-> "get_gol_by_partita", partita_id |-> partita_id,
          status |-> 404, body |-> {}]
    ELSE [op |-> "get_gol_by_partita", partita_id |-> partita_id,
          status |-> 200, body |-> {g \in gol : g.partita_id = partita_id}]

get_gol_by_partita_response(partita_id) ==
    IF partita_id \notin DOMAIN partite
    THEN [op |-> "get_gol_by_partita", partita_id |-> partita_id,
          status |-> 404, body |-> {}]
    ELSE [op |-> "get_gol_by_partita", partita_id |-> partita_id,
          status |-> 200, body |-> {g \in gol : g.partita_id = partita_id}]

get_gol_by_partita(partita_id) ==
    /\ resp' = get_gol_by_partita_response(partita_id)
    /\ UNCHANGED <<players, partite, formazioni, gol, seqs, now, reqs, assets>>

----------------------------------------------------------------------------
(* Deleting a partita or a player; photos *)

\* A row of formazioni or gol holds partita_id: ForeignKey('partite.id')
\* refuses the DELETE of that partita.
PartitaReferenced(partita_id) ==
    \/ \E f \in formazioni : f.partita_id = partita_id
    \/ \E g \in gol : g.partita_id = partita_id

delete_partita(partita_id) ==
    /\ resp' =
          IF partita_id \notin DOMAIN partite
          THEN [op |-> "delete_partita", id |-> partita_id, status |-> 404,
                body |-> "Partita not found"]
          ELSE IF PartitaReferenced(partita_id)
          THEN [op |-> "delete_partita", id |-> partita_id, status |-> 500,
                body |-> "IntegrityError"]
          ELSE [op |-> "delete_partita", id |-> partita_id, status |-> 200,
                body |-> "Partita deleted successfully"]
    /\ partite' = IF resp'.status = 200
                  THEN [i \in DOMAIN partite \ {partita_id} |-> partite[i]]
                  ELSE partite
    /\ UNCHANGED <<players, formazioni, gol, seqs, now, reqs, assets>>

\* A mapping without key k, and with key k set to v.
Remove(f, k) == [x \in DOMAIN f \ {k} |-> f[x]]

Put(f, k, v) == [x \in DOMAIN f \cup {k} |-> IF x = k THEN v ELSE f[x]]

\* What is left of a file whose copy broke off after it was opened.
Truncated == 0

\* str.lower() on the suffixes the requests carry.
Lower(suffix) == IF suffix = ".PNG" THEN ".png" ELSE suffix

AllowedExtension_any(file) == TRUE

\* "if file_extension not in allowed_extensions", negated.
AllowedExtension(file) ==
    Lower(file.suffix) \in {".jpg", ".jpeg", ".png", ".gif", ".webp"}

\* The secure_url of the image uploaded as players/{player_id} in folder
\* matchday; its last path segment is the player id and the format.
CloudinaryUrl(player_id, file) ==
    [host |-> "res.cloudinary.com", stem |-> player_id,
     suffix |-> Lower(file.suffix)]

\* f"/uploads/players/{file_name}" with file_name the player id and suffix.
LocalUrl(player_id, file) ==
    [host |-> "", stem |-> player_id, suffix |-> file.suffix]

\* "cloudinary.com" in photo_url
IsCloudinary(url) == url.host = "res.cloudinary.com"

\* The "Delete photo if exists" block of delete_player and of
\* upload_player_photo: the store it leaves, and whether it raised.
DeletePhoto(photo_url, env, store) ==
    IF IsNone(photo_url)
    THEN [raised |-> FALSE, assets |-> store]
    ELSE LET url == The(photo_url)
             path == <<url.stem, url.suffix>>
         IN IF IsCloudinary(url)
            THEN [raised |-> FALSE,
                  assets |-> IF env.destroy = "ok"
                             THEN [store EXCEPT !.remote = Remove(@, url.stem)]
                             ELSE store]
            ELSE IF path \notin DOMAIN store.local
            THEN [raised |-> FALSE, assets |-> store]
            ELSE IF env.unlink = "ok"
            THEN [raised |-> FALSE,
                  assets |-> [store EXCEPT !.local = Remove(@, path)]]
            ELSE [raised |-> TRUE, assets |-> store]

save_upload_file_both(file, player_id, env, store) ==
    IF env.upload = "ok"
    THEN [raised |-> FALSE, url |-> Some(CloudinaryUrl(player_id, file)),
          assets |-> [store EXCEPT
                        !.remote = Put(@, player_id, file.data),
                        !.local = Put(@, <<player_id, file.suffix>>, file.data)]]
    ELSE [raised |-> FALSE, url |-> Some(LocalUrl(player_id, file)),
          assets |-> [store EXCEPT
                        !.local = Put(@, <<player_id, file.suffix>>, file.data)]]

\* save_upload_file: the upload to the image host and, when it raises, the
\* copy to uploads/players; the copy's own failure is not caught.
save_upload_file(file, player_id, env, store) ==
    LET file_name == <<player_id, file.suffix>> IN
    IF env.upload = "ok"
    THEN [raised |-> FALSE, url |-> Some(CloudinaryUrl(player_id, file)),
          assets |-> [store EXCEPT !.remote = Put(@, player_id, file.data)]]
    ELSE IF env.write = "ok"
    THEN [raised |-> FALSE, url |-> Some(LocalUrl(player_id, file)),
          assets |-> [store EXCEPT !.local = Put(@, file_name, file.data)]]
    ELSE IF env.write = "partial"
    THEN [raised |-> TRUE, url |-> None,
          assets |-> [store EXCEPT !.local = Put(@, file_name, Truncated)]]
    ELSE [raised |-> TRUE, url |-> None, assets |-> store]

\* A response of upload_player_photo.
PhotoResponse(player_id, file, env, status, body) ==
    [op |-> "upload_player_photo", id |-> player_id, status |-> status,
     file |-> file, env |-> env, body |-> body]

upload_player_photo(player_id, file, env) ==
    IF player_id \notin DOMAIN players
    THEN /\ resp' = PhotoResponse(player_id, file, env, 404, None)
         /\ UNCHANGED <<players, partite, formazioni, gol, seqs, now, reqs,
                        assets>>
    ELSE IF ~AllowedExtension(file)
    THEN /\ resp' = PhotoResponse(player_id, file, env, 400, None)
         /\ UNCHANGED <<players, partite, formazioni, gol, seqs, now, reqs,
                        assets>>
    ELSE LET player == players[player_id]
             old == DeletePhoto(player.photo_url, env, assets)
             new == save_upload_file(file, player_id, env, old.assets)
         IN IF old.raised
            THEN /\ resp' = PhotoResponse(player_id, file, env, 500, None)
                 /\ assets' = old.assets
                 /\ UNCHANGED <<players, partite, formazioni, gol, seqs, now,
                                reqs>>
            ELSE IF new.raised
            THEN /\ resp' = PhotoResponse(player_id, file, env, 500, None)
                 /\ assets' = new.assets
                 /\ UNCHANGED <<players, partite, formazioni, gol, seqs, now,
                                reqs>>
            ELSE \E t \in ClockReads :
                 /\ players' = [players EXCEPT ![player_id].photo_url = new.url,
                                               ![player_id].updated_at = t]
                 /\ now' = t
                 /\ assets' = new.assets
                 /\ resp' = PhotoResponse(player_id, file, env, 200, new.url)
                 /\ UNCHANGED <<partite, formazioni, gol, seqs, reqs>>

PlayerReferenced_off(player_id) == FALSE

\* A row of formazioni or gol holds player_id: ForeignKey('players.id')
\* refuses the DELETE of that player.
PlayerReferenced(player_id) ==
    \/ \E f \in formazioni : f.giocatore_id = player_id
    \/ \E g \in gol : \/ g.giocatore_id = player_id
                      \/ g.assist_giocatore_id = Some(player_id)

\* A response of delete_player.
DeletePlayerResponse(player_id, env, status, body) ==
    [op |-> "delete_player", id |-> player_id, status |-> status,
     env |-> env, body |-> body]

delete_player(player_id, env) ==
    IF player_id \notin DOMAIN players
    THEN /\ resp' = DeletePlayerResponse(player_id, env, 404, "Player not found")
         /\ UNCHANGED <<players, partite, formazioni, gol, seqs, now, reqs,
                        assets>>
    ELSE LET old == DeletePhoto(players[player_id].photo_url, env, assets) IN
         /\ assets' = old.assets
         /\ IF old.raised
            THEN /\ resp' = DeletePlayerResponse(player_id, env, 500, "OSError")
                 /\ UNCHANGED players
            ELSE IF PlayerReferenced(player_id)
            THEN /\ resp' = DeletePlayerResponse(player_id, env, 500,
                                                 "IntegrityError")
                 /\ UNCHANGED players
            ELSE /\ resp' = DeletePlayerResponse(player_id, env, 200,
                                                 "Player deleted successfully")
                 /\ players' = Remove(players, player_id)
         /\ UNCHANGED <<partite, formazioni, gol, seqs, now, reqs>>

----------------------------------------------------------------------------
(* Requests the player specifications draw from *)

SkillRequests ==
    { NoSkills,
      [NoSkills EXCEPT !.passing = Some(9)],
      [NoSkills EXCEPT !.speed = Some(7), !.goalkeeping = Some(3)] }

PlayerCreateRequests ==
    [name : {"a"}, role : Roles, skills : SkillRequests,
     goals_scored : {0, 3}, assists : {0}, gold_medals : {0},
     silver_medals : {0}, bronze_medals : {0}]

NoUpdate ==
    [name |-> None, role |-> None, skills |-> None, goals_scored |-> None,
     assists |-> None, gold_medals |-> None, silver_medals |-> None,
     bronze_medals |-> None]

PlayerUpdateRequests ==
    { NoUpdate,
      [NoUpdate EXCEPT !.name = Some("b")],
      [NoUpdate EXCEPT !.role = Some("GOALKEEPER")],
      [NoUpdate EXCEPT !.role = Some("FORWARD")],
      [NoUpdate EXCEPT !.goals_scored = Some(3)],
      [NoUpdate EXCEPT !.role = Some("GOALKEEPER"), !.skills = Some(NoSkills)] }
    \cup { [NoUpdate EXCEPT !.skills = Some(sr)] : sr \in SkillRequests }

NoPartitaValues == [f \in PartitaFields |-> None]

PlainPartita ==
    [NoPartitaValues EXCEPT !.data_partita = Some(1),
                            !.gol_squadra_a = Some(0), !.gol_squadra_b = Some(0)]

PartitaCreateRequests ==
    { PlainPartita,
      [PlainPartita EXCEPT !.ora_inizio = Some(<<20, 30, 0, 500>>),
                           !.nome_squadra_a = Some("Rossi"),
                           !.gol_squadra_a = Some(2),
                           !.numero_giocatori_squadra = Some(7)] }

PartitaUpdateRequests ==
    { [fields_set |-> {}, values |-> NoPartitaValues],
      [fields_set |-> {"stadio"},
       values |-> [NoPartitaValues EXCEPT !.stadio = Some("San Siro")]],
      [fields_set |-> {"gol_squadra_a", "gol_squadra_b"},
       values |-> [NoPartitaValues EXCEPT !.gol_squadra_a = Some(3),
                                          !.gol_squadra_b = Some(1)]],
      [fields_set |-> {"ora_inizio"},
       values |-> [NoPartitaValues EXCEPT !.ora_inizio = Some(<<9, 0, 0, 0>>)]],
      [fields_set |-> {"nome_squadra_a"}, values |-> NoPartitaValues],
      [fields_set |-> {"data_partita"}, values |-> NoPartitaValues] }

EmptyStore ==
    /\ players = <<>>
    /\ partite = <<>>
    /\ formazioni = {}
    /\ gol = {}
    /\ seqs = [player |-> 0, partita |-> 0, formazione |-> 0, gol |-> 0]
    /\ now = 0
    /\ reqs = <<>>
    /\ resp = NoResponse
    /\ assets = NoAssets

----------------------------------------------------------------------------
(* SpecPlayer: the player endpoints on an initially empty store, for the    *)
(* first player created; id 2 names no player                               *)

InitPlayer == EmptyStore

NextPlayer ==
    \/ players = <<>> /\ \E player \in PlayerCreateRequests : create_player(player)
    \/ \E id \in {1, 2} : \E u \in PlayerUpdateRequests : update_player(id, u)
    \/ \E id \in {1, 2} : get_player(id)

SpecPlayer == InitPlayer /\ [][NextPlayer]_vars

----------------------------------------------------------------------------
(* Requests and the roster the lineup specifications draw from *)

PlainPlayer ==
    [name |-> "a", role |-> "FORWARD", skills |-> NoSkills,
     goals_scored |-> 0, assists |-> 0, gold_medals |-> 0,
     silver_medals |-> 0, bronze_medals |-> 0]

\* Players 1 and 2 and partita 1 are stored; player 3 and partita 2 are ids
\* that name no record.
Roster ==
    /\ players = [i \in {1, 2} |-> GoalkeeperOverride(NewPlayerRow(PlainPlayer, 0, 0))]
    /\ partite = [i \in {1} |-> NewPartitaRow(PlainPartita)]
    /\ formazioni = {}
    /\ gol = {}
    /\ seqs = [player |-> 2, partita |-> 1, formazione |-> 0, gol |-> 0]
    /\ now = 0
    /\ reqs = <<>>
    /\ resp = NoResponse
    /\ assets = NoAssets

PartitaIds == {1, 2}

EntryRefs == {<<1, 1>>, <<1, 2>>, <<1, 3>>, <<2, 1>>}

EntryStyles ==
    { [squadra |-> "A", numero_maglia |-> Some(10), capitano |-> TRUE],
      [squadra |-> "B", numero_maglia |-> None, capitano |-> FALSE] }

LineupEntry(ref, st) ==
    [partita_id |-> ref[1], giocatore_id |-> ref[2], squadra |-> st.squadra,
     numero_maglia |-> st.numero_maglia, capitano |-> st.capitano]

\* The request bodies: at most MaxBatch entries, all of one style.
Batches ==
    UNION {{[i \in 1..n |-> LineupEntry(refs[i], st)] :
            refs \in [1..n -> EntryRefs], st \in EntryStyles} : n \in 0..MaxBatch}

GolRequests ==
    [partita_id : PartitaIds, giocatore_id : {1, 3}, minuto : {10},
     squadra : {"A"}, tipo_gol : {"normale"},
     assist_giocatore_id : {None, Some(2), Some(3), Some(EmptyString)}]

----------------------------------------------------------------------------
(* Spec: creating, deleting and reading lineup entries and goals, one       *)
(* request at a time                                                        *)

Init == Roster

Idle == reqs = <<>>

Next ==
    \/ \E b \in Batches : create_formazione_start(1, b)
    \/ create_formazione_check(1)
    \/ create_formazione_insert(1)
    \/ Idle /\ \E id \in 1..MaxFormazioni : delete_formazione(id)
    \/ Idle /\ \E m \in PartitaIds : get_formazioni_by_partita(m)
    \/ Idle /\ \E g \in GolRequests : create_gol(g)
    \/ Idle /\ \E m \in PartitaIds : get_gol_by_partita(m)

Spec == Init /\ [][Next]_vars

----------------------------------------------------------------------------
(* SpecReplace: the bulk lineup replace, one request at a time, on a match  *)
(* whose lineup holds no, one or two entries                                *)

\* A lineup entry of partita 1 as create_formazione stored it.
StoredEntry(id, giocatore_id) ==
    [id |-> id, partita_id |-> 1, giocatore_id |-> giocatore_id,
     squadra |-> "A", numero_maglia |-> Some(10), capitano |-> (id = 1)]

InitReplace ==
    /\ players = [i \in {1, 2} |-> GoalkeeperOverride(NewPlayerRow(PlainPlayer, 0, 0))]
    /\ partite = [i \in {1} |-> NewPartitaRow(PlainPartita)]
    /\ \E n \in 0..2 :
         /\ formazioni = {StoredEntry(i, i) : i \in 1..n}
         /\ seqs = [player |-> 2, partita |-> 1, formazione |-> n, gol |-> 0]
    /\ gol = {}
    /\ now = 0
    /\ reqs = <<>>
    /\ resp = NoResponse
    /\ assets = NoAssets

NextReplace ==
    \/ \E m \in PartitaIds : \E b \in Batches : update_formazioni_start(1, m, b)
    \/ update_formazioni_delete(1)
    \/ update_formazioni_check(1)
    \/ update_formazioni_insert(1)
    \/ Idle /\ \E m \in PartitaIds : get_formazioni_by_partita(m)

SpecReplace == InitReplace /\ [][NextReplace]_vars

----------------------------------------------------------------------------
(* SpecConcurrent: two sessions create, replace, delete and read            *)
(* the lineup of partita 1 at the same time                                 *)

ConcurrentStyle == [squadra |-> "B", numero_maglia |-> None, capitano |-> FALSE]

\* One entry for player 1 or 2.
ConcurrentCreates ==
    {<<LineupEntry(ref, ConcurrentStyle)>> : ref \in {<<1, 1>>, <<1, 2>>}}

\* One to MaxBatch entries for players 1 and 2.
ConcurrentBatches ==
    UNION {{[i \in 1..n |-> LineupEntry(refs[i], ConcurrentStyle)] :
            refs \in [1..n -> {<<1, 1>>, <<1, 2>>}]} : n \in 1..MaxBatch}

InitConcurrent ==
    /\ players = [i \in {1, 2} |-> GoalkeeperOverride(NewPlayerRow(PlainPlayer, 0, 0))]
    /\ partite = [i \in {1} |-> NewPartitaRow(PlainPartita)]
    /\ \E n \in 2..2 :
         /\ formazioni = {StoredEntry(i, i) : i \in 1..n}
         /\ seqs = [player |-> 2, partita |-> 1, formazione |-> n, gol |-> 0]
    /\ gol = {}
    /\ now = 0
    /\ reqs = <<>>
    /\ resp = NoResponse
    /\ assets = NoAssets

NextConcurrent ==
    \/ \E r \in Sessions : \E b \in ConcurrentCreates :
          create_formazione_start(r, b)
    \/ \E r \in Sessions : create_formazione_check(r)
    \/ \E r \in Sessions : create_formazione_insert(r)
    \/ \E r \in Sessions : \E b \in ConcurrentBatches :
          update_formazioni_start(r, 1, b)
    \/ \E r \in Sessions : update_formazioni_delete(r)
    \/ \E r \in Sessions : update_formazioni_delete_resume(r)
    \/ \E r \in Sessions : update_formazioni_check(r)
    \/ \E r \in Sessions : update_formazioni_insert(r)
    \/ \E r \in Sessions : update_formazioni_deadlock(r)
    \/ \E f \in formazioni : delete_formazione(f.id)
    \/ get_formazioni_by_partita(1)

SpecConcurrent == InitConcurrent /\ [][NextConcurrent]_vars

----------------------------------------------------------------------------
(* SpecDelete: creating, replacing and deleting lineup entries, goals,      *)
(* players and partite, one request at a time, on a store that holds        *)
(* players 1 and 2, partite 1 and 2 and a lineup of two entries for         *)
(* partita 1                                                                *)

\* The outcomes of the calls a photo request makes outside the database.
Envs ==
    [destroy : {"ok", "error"}, unlink : {"ok", "error"},
     upload : {"ok", "error"}, write : {"ok", "partial", "error"}]

\* Every outside call succeeds.
CalmEnv == [destroy |-> "ok", unlink |-> "ok", upload |-> "ok", write |-> "ok"]

\* Goals of player 1 in partita 1 or 2, with no assist or player 2's.
PlainGolRequests ==
    {g \in GolRequests : /\ g.giocatore_id = 1
                         /\ g.assist_giocatore_id \in {None, Some(2)}}

\* One entry each.
SingleBatches == {<<LineupEntry(ref, ConcurrentStyle)>> : ref \in EntryRefs}

InitDelete ==
    /\ players = [i \in {1, 2} |-> GoalkeeperOverride(NewPlayerRow(PlainPlayer, 0, 0))]
    /\ partite = [i \in {1, 2} |-> NewPartitaRow(PlainPartita)]
    /\ formazioni = {StoredEntry(1, 1), StoredEntry(2, 2)}
    /\ gol = {}
    /\ seqs = [player |-> 2, partita |-> 2, formazione |-> 2, gol |-> 0]
    /\ now = 0
    /\ reqs = <<>>
    /\ resp = NoResponse
    /\ assets = NoAssets

NextDelete ==
    \/ \E b \in SingleBatches : create_formazione_start(1, b)
    \/ create_formazione_check(1)
    \/ create_formazione_insert(1)
    \/ \E m \in PartitaIds : \E b \in SingleBatches :
          update_formazioni_start(1, m, b)
    \/ update_formazioni_delete(1)
    \/ update_formazioni_check(1)
    \/ update_formazioni_insert(1)
    \/ Idle /\ \E f \in formazioni : delete_formazione(f.id)
    \/ Idle /\ \E m \in PartitaIds : get_formazioni_by_partita(m)
    \/ Idle /\ \E g \in PlainGolRequests : create_gol(g)
    \/ Idle /\ \E id \in 1..3 : delete_player(id, CalmEnv)
    \/ Idle /\ \E m \in 1..3 : delete_partita(m)

SpecDelete == InitDelete /\ [][NextDelete]_vars

----------------------------------------------------------------------------
(* SpecPhoto: photo uploads and player deletions on a store that holds      *)
(* player 1, every call to the image host and to the disk free to fail;     *)
(* id 2 names no player                                                     *)

\* The uploaded files: the suffix of the file name and the bytes.
PhotoFiles == [suffix : {".jpg", ".PNG", ".txt"}, data : {1}]

InitPhoto ==
    /\ players = [i \in {1} |-> GoalkeeperOverride(NewPlayerRow(PlainPlayer, 0, 0))]
    /\ partite = <<>>
    /\ formazioni = {}
    /\ gol = {}
    /\ seqs = [player |-> 1, partita |-> 0, formazione |-> 0, gol |-> 0]
    /\ now = 0
    /\ reqs = <<>>
    /\ resp = NoResponse
    /\ assets = NoAssets

NextPhoto ==
    \/ \E id \in {1, 2} : \E file \in PhotoFiles : \E env \in Envs :
          upload_player_photo(id, file, env)
    \/ \E id \in {1, 2} : \E env \in Envs : delete_player(id, env)

SpecPhoto == InitPhoto /\ [][NextPhoto]_vars

----------------------------------------------------------------------------
(* SpecPartial: the two partial updates on a store that holds one player    *)
(* and one partita, each as its create request left it                      *)

InitPartial ==
    /\ \E player \in PlayerCreateRequests :
         players = [i \in {1} |-> GoalkeeperOverride(NewPlayerRow(player, 0, 0))]
    /\ \E partita \in PartitaCreateRequests :
         partite = [i \in {1} |-> NewPartitaRow(partita)]
    /\ formazioni = {}
    /\ gol = {}
    /\ seqs = [player |-> 1, partita |-> 1, formazione |-> 0, gol |-> 0]
    /\ now = 0
    /\ reqs = <<>>
    /\ resp = NoResponse
    /\ assets = NoAssets

NextPartial ==
    \/ \E u \in PlayerUpdateRequests : update_player(1, u)
    \/ \E u \in PartitaUpdateRequests : update_partita(1, u)

SpecPartial == InitPartial /\ [][NextPartial]_vars

----------------------------------------------------------------------------
(* SpecRating: get_player on one stored player of every role, its skills    *)
(* drawn from RatingSkillValues                                             *)

RatingSkillValues == {SkillMin, 6, SkillMax}

InitRating ==
    /\ \E role \in Roles : \E skills \in [SkillNames -> RatingSkillValues] :
         players = [i \in {1} |->
             [name |-> "a", role |-> role, photo_url |-> None,
              speed |-> skills.speed, passing |-> skills.passing,
              attack |-> skills.attack, defense |-> skills.defense,
              technique |-> skills.technique, goalkeeping |-> skills.goalkeeping,
              heading |-> skills.heading, stamina |-> skills.stamina,
              leadership |-> skills.leadership,
              created_at |-> 0, updated_at |-> 0,
              goals_scored |-> 0, assists |-> 0, gold_medals |-> 0,
              silver_medals |-> 0, bronze_medals |-> 0]]
    /\ partite = <<>>
    /\ formazioni = {}
    /\ gol = {}
    /\ seqs = [player |-> 1, partita |-> 0, formazione |-> 0, gol |-> 0]
    /\ now = 0
    /\ reqs = <<>>
    /\ resp = NoResponse
    /\ assets = NoAssets

NextRating == get_player(1)

SpecRating == InitRating /\ [][NextRating]_vars

----------------------------------------------------------------------------
(* Claims *)

\* The role's weighted sum and divisor as the rating formula states them.
RatingWeightedSum(role, s) ==
    CASE role = "GOALKEEPER" ->
           3 * s.goalkeeping + 2 * s.defense + s.technique + s.leadership
      [] role = "DEFENDER" ->
           3 * s.defense + 2 * s.heading + s.passing + s.stamina + s.leadership
      [] role = "MIDFIELDER" ->
           2 * s.passing + 2 * s.technique + s.stamina + s.attack + s.defense
           + s.leadership
      [] role = "FORWARD" ->
           3 * s.attack + 2 * s.speed + s.technique + s.heading + s.stamina

RatingDivisor(role) == IF role = "GOALKEEPER" THEN 7 ELSE 8

\* C1: for every role and every skill assignment in 1..10 the overall rating
\* get_player reports is the role's weighted sum divided by its divisor,
\* truncated, and lies in 0..10.
C1_RatingFormula ==
    (resp.op = "get_player" /\ resp.status = 200) =>
        /\ resp.body.overall_rating =
              RatingWeightedSum(resp.body.role, resp.body.skills)
                \div RatingDivisor(resp.body.role)
        /\ resp.body.overall_rating \in 0..10

\* A goalkeeper whose weighted sum is no multiple of 7 has been rated.
C1_Witness ==
    /\ resp.op = "get_player" /\ resp.status = 200
    /\ resp.body.role = "GOALKEEPER"
    /\ RatingWeightedSum("GOALKEEPER", resp.body.skills) % 7 # 0
    /\ resp.body.overall_rating = 8

\* Session r takes the step.
Stepped(r) == r \notin DOMAIN reqs' \/ reqs'[r] # reqs[r]

\* The request of session r ends with the step.
Ends(r) == r \notin DOMAIN reqs'

Replacing(r) ==
    r \in DOMAIN reqs /\ reqs[r].op = "update_formazioni_by_partita"

Creating(r) == r \in DOMAIN reqs /\ reqs[r].op = "create_formazione"

MissingPlayer(entry) == entry.giocatore_id \notin DOMAIN players

\* Entry i of a replace batch for `partita_id` is refused: by the partita_id
\* comparison, by the player lookup, or by the unique index because an
\* earlier entry of the batch has its pair.
Refused(batch, partita_id, i) ==
    \/ batch[i].partita_id # partita_id
    \/ MissingPlayer(batch[i])
    \/ \E j \in 1..(i - 1) : KeyOf(batch[j]) = KeyOf(batch[i])

\* The first refused entry of the batch is refused by the player lookup.
FirstRefusalIsMissingPlayer(batch, partita_id) ==
    \E i \in 1..Len(batch) :
        /\ \A j \in 1..(i - 1) : ~Refused(batch, partita_id, j)
        /\ batch[i].partita_id = partita_id
        /\ MissingPlayer(batch[i])

\* C2 as stated: while update_formazioni_by_partita serves a batch with an
\* entry whose player does not exist, no step of the request changes the
\* stored lineup entries, and the request ends with 404.
C2_MissingPlayerNotFound ==
    [][\A r \in Sessions :
         (Replacing(r) /\ Stepped(r)
            /\ \E i \in 1..Len(reqs[r].request) :
                   MissingPlayer(reqs[r].request[i]))
         => /\ formazioni' = formazioni
            /\ (Ends(r) => resp'.status = 404)]_vars

\* C2 amended: while update_formazioni_by_partita serves a batch with an
\* entry whose player does not exist, no step of the request changes the
\* stored lineup entries, and the request ends with 404 when the first
\* refused entry of the batch is one with a missing player, with 400 when an
\* earlier entry is refused for its partita_id or for repeating a pair.
C2_MissingPlayerAllOrNothing ==
    [][\A r \in Sessions :
         (Replacing(r) /\ Stepped(r)
            /\ \E i \in 1..Len(reqs[r].request) :
                   MissingPlayer(reqs[r].request[i]))
         => /\ formazioni' = formazioni
            /\ (Ends(r) =>
                 resp'.status =
                    IF FirstRefusalIsMissingPlayer(reqs[r].request,
                                                   reqs[r].partita_id)
                    THEN 404 ELSE 400)]_vars

\* A replace refused at its second entry for the missing player, after the
\* delete of the two stored entries and the flush of its first entry: the
\* two stored entries are the lineup again.
C2_Witness ==
    /\ resp.op = "update_formazioni_by_partita"
    /\ resp.status = 404 /\ resp.failed = 2
    /\ ~IsNone(resp.entry) /\ MissingPlayer(The(resp.entry))
    /\ formazioni = {StoredEntry(1, 1), StoredEntry(2, 2)}
    /\ seqs.formazione = 3

\* C3: a step of a bulk replace changes the committed lineup entries, the
\* ones every other request reads, only when it is the commit that ends the
\* request with all its entries inserted; that step takes out the rows the
\* request deleted and puts in all the rows of the batch at once.
C3_ReplaceAtOnce ==
    [][\A r \in Sessions :
         (Replacing(r) /\ Stepped(r) /\ formazioni' # formazioni)
         => /\ Ends(r)
            /\ resp'.status = 200
            /\ Len(reqs[r].created) = Len(reqs[r].request)
            /\ formazioni' =
                  (formazioni \ reqs[r].deleted) \cup Range(reqs[r].created)]_vars

\* A reader has been answered with the complete stored lineup while a
\* replace holds those rows deleted and a new row flushed.
C3_Witness ==
    \E r \in Sessions :
        /\ Replacing(r)
        /\ reqs[r].deleted = {StoredEntry(1, 1), StoredEntry(2, 2)}
        /\ reqs[r].created # <<>>
        /\ Len(reqs[r].created) < Len(reqs[r].request)
        /\ resp.op = "get_formazioni_by_partita" /\ resp.status = 200
        /\ {x.formazione : x \in resp.body} = reqs[r].deleted

\* C4: no two committed lineup entries share (partita_id, giocatore_id).
C4_UniquePair ==
    \A f, g \in formazioni : KeyOf(f) = KeyOf(g) => f = g

\* Two create_formazione requests for the same pair have both passed their
\* existence checks and neither has inserted.
C4_Witness ==
    /\ Creating(1) /\ Creating(2)
    /\ reqs[1].pc = "insert" /\ reqs[2].pc = "insert"
    /\ KeyOf(CurrentEntry(reqs[1])) = KeyOf(CurrentEntry(reqs[2]))
    /\ KeyOf(CurrentEntry(reqs[1])) \notin Keys(formazioni)

\* C5: the insert of create_formazione for a pair that is already stored
\* ends the request with 400 and leaves the stored lineup entries as they
\* are.
C5_DuplicateRefused ==
    [][\A r \in Sessions :
         (Creating(r) /\ reqs[r].pc = "insert" /\ Stepped(r)
            /\ KeyOf(CurrentEntry(reqs[r])) \in Keys(formazioni))
         => /\ Ends(r)
            /\ resp'.status = 400
            /\ formazioni' = formazioni]_vars

\* create_formazione has been refused an entry whose pair is stored with
\* another side, shirt number and captain flag.
C5_Witness ==
    /\ resp.op = "create_formazione" /\ resp.status = 400
    /\ ~IsNone(resp.entry)
    /\ \E f \in formazioni :
          /\ KeyOf(f) = KeyOf(The(resp.entry))
          /\ f.squadra # The(resp.entry).squadra
          /\ f.numero_maglia # The(resp.entry).numero_maglia
          /\ f.capitano # The(resp.entry).capitano

\* C6: create_gol with a partita_id, giocatore_id or supplied
\* assist_giocatore_id that names no record, and create_formazione with a
\* partita_id or giocatore_id that names no record, answer 404 and store no
\* row with the missing reference.
C6_MissingReferenceNotFound ==
    /\ ((resp.op = "create_gol"
          /\ \/ resp.request.partita_id \notin DOMAIN partite
             \/ resp.request.giocatore_id \notin DOMAIN players
             \/ /\ ~IsNone(resp.request.assist_giocatore_id)
                /\ The(resp.request.assist_giocatore_id) \notin DOMAIN players)
          => /\ resp.status = 404
             /\ \A g \in gol :
                   /\ g.partita_id \in DOMAIN partite
                   /\ g.giocatore_id \in DOMAIN players
                   /\ IsNone(g.assist_giocatore_id)
                        \/ The(g.assist_giocatore_id) \in DOMAIN players)
    /\ ((resp.op = "create_formazione" /\ ~IsNone(resp.entry)
          /\ \/ The(resp.entry).partita_id \notin DOMAIN partite
             \/ The(resp.entry).giocatore_id \notin DOMAIN players)
          => /\ resp.status = 404
             /\ \A f \in formazioni :
                   /\ f.partita_id \in DOMAIN partite
                   /\ f.giocatore_id \in DOMAIN players)

\* C7: get_gol_by_partita answers 200 with the goals of an existing match,
\* the empty list when it has none, and 404 exactly when the match does not
\* exist; get_formazioni_by_partita answers 404 for a match with no lineup
\* entry, whether the match exists or not.
C7_AsymmetricReads ==
    /\ (resp.op = "get_gol_by_partita" =>
          /\ (resp.status = 404) <=> (resp.partita_id \notin DOMAIN partite)
          /\ (resp.partita_id \in DOMAIN partite) =>
                /\ resp.status = 200
                /\ resp.body = {g \in gol : g.partita_id = resp.partita_id})
    /\ ((resp.op = "get_formazioni_by_partita"
          /\ LineupOf(resp.partita_id) = {}) => resp.status = 404)

\* get_gol_by_partita has answered with the empty list for a match that has
\* no lineup entry either.
C7_Witness ==
    /\ resp.op = "get_gol_by_partita" /\ resp.status = 200
    /\ resp.body = {}
    /\ resp.partita_id \in DOMAIN partite
    /\ get_formazioni_by_partita_response(resp.partita_id).status = 404

NameOnly(player_update) ==
    /\ ~IsNone(player_update.name)
    /\ player_update = [NoUpdate EXCEPT !.name = player_update.name]

\* C8: update_player on an existing player with only the name supplied sets
\* the name, keeps the role, the nine skills, the five counters, the id,
\* photo_url and created_at, and sets updated_at no earlier than it was.
C8_NameOnlyUpdate ==
    (resp.op = "update_player" /\ resp.status = 200 /\ NameOnly(resp.request)) =>
        /\ resp.id \in DOMAIN players
        /\ resp.body.id = resp.id
        /\ LET after == players[resp.id]
               before == resp.before
           IN /\ after.name = The(resp.request.name)
              /\ \A f \in SkillNames \cup CounterNames
                          \cup {"role", "photo_url", "created_at"} :
                     after[f] = before[f]
              /\ after.updated_at >= before.updated_at

\* A renamed player whose skills and counters are not the defaults and whose
\* updated_at moved.
C8_Witness ==
    /\ resp.op = "update_player" /\ resp.status = 200 /\ NameOnly(resp.request)
    /\ resp.before.name = "a" /\ players[resp.id].name = "b"
    /\ players[resp.id].speed = 7 /\ players[resp.id].goals_scored = 3
    /\ players[resp.id].updated_at > resp.before.updated_at

\* C9: update_player and update_partita keep every stored field the request
\* does not supply, a skill left out of a supplied skills object included.
C9_UnsuppliedFieldsKept ==
    /\ (resp.op = "update_player" /\ resp.status = 200) =>
          LET after == players[resp.id]
              before == resp.before
              r == resp.request
          IN /\ \A f \in {"name", "role"} \cup CounterNames :
                    IsNone(r[f]) => after[f] = before[f]
             /\ \A f \in {"photo_url", "created_at"} : after[f] = before[f]
             /\ \A s \in SkillNames :
                    (IsNone(r.skills) \/ IsNone(The(r.skills)[s]))
                        => after[s] = before[s]
    /\ (resp.op = "update_partita" /\ resp.status = 200) =>
          \A f \in PartitaFields \ resp.request.fields_set :
              partite[resp.id][f] = resp.before[f]

C11_DeletePartitaNoCascade ==
    [][(resp'.op = "delete_partita" /\ resp'.id \in DOMAIN partite)
         => /\ resp'.status = 200
            /\ partite' = [i \in DOMAIN partite \ {resp'.id} |-> partite[i]]
            /\ formazioni' = formazioni
            /\ gol' = gol
            /\ players' = players]_vars

\* The step is an upload_player_photo for a stored player and an accepted
\* file whose removal of the old photo has not raised.
PhotoSaved ==
    /\ resp'.op = "upload_player_photo"
    /\ resp'.id \in DOMAIN players
    /\ Lower(resp'.file.suffix) \in {".jpg", ".jpeg", ".png", ".gif", ".webp"}
    /\ ~DeletePhoto(players[resp'.id].photo_url, resp'.env, assets).raised

\* The step writes no file under uploads/players.
NoLocalWrite ==
    \A path \in DOMAIN assets'.local :
        path \in DOMAIN assets.local /\ assets'.local[path] = assets.local[path]

\* The upload has answered 200 with the image host's URL, stored it as the
\* player's photo_url, and written no local file.
StoredRemotely ==
    /\ resp'.status = 200
    /\ ~IsNone(resp'.body) /\ The(resp'.body).host = "res.cloudinary.com"
    /\ players'[resp'.id].photo_url = resp'.body
    /\ resp'.id \in DOMAIN assets'.remote
    /\ assets'.remote[resp'.id] = resp'.file.data
    /\ NoLocalWrite

\* The upload has answered 200 with the /uploads/players/ path of player id
\* plus original suffix, stored it as the player's photo_url, and written
\* the bytes to that file.
StoredLocally ==
    LET path == <<resp'.id, resp'.file.suffix>> IN
    /\ resp'.status = 200
    /\ resp'.body = Some([host |-> "", stem |-> resp'.id,
                          suffix |-> resp'.file.suffix])
    /\ players'[resp'.id].photo_url = resp'.body
    /\ path \in DOMAIN assets'.local
    /\ assets'.local[path] = resp'.file.data
    /\ assets'.remote = DeletePhoto(players[resp'.id].photo_url, resp'.env,
                                    assets).assets.remote

\* C12 as stated: when the upload to the image host succeeds no local file
\* is written and the stored and returned photo_url is the host's URL; when
\* it fails the bytes are written locally, the stored and returned photo_url
\* is the local path, and the request answers 200.
C12_LocalOnlyAfterRemoteFailure ==
    [][PhotoSaved =>
         IF resp'.env.upload = "ok" THEN StoredRemotely ELSE StoredLocally]_vars

\* C12 amended: as stated when the local write succeeds; when the upload to
\* the image host and the local write both fail the request answers 500 and
\* the player's row is unchanged.
C12_LocalOnlyAfterRemoteFailureUnlessWriteFails ==
    [][PhotoSaved =>
         IF resp'.env.upload = "ok" THEN StoredRemotely
         ELSE IF resp'.env.write = "ok" THEN StoredLocally
         ELSE resp'.status = 500 /\ players' = players]_vars

\* An upload whose remote upload failed has stored its bytes locally under
\* the original upper-case suffix and answered 200 with that path.
C12_Witness ==
    /\ resp.op = "upload_player_photo" /\ resp.status = 200
    /\ resp.env.upload = "error"
    /\ resp.file.suffix = ".PNG"
    /\ players[1].photo_url = Some([host |-> "", stem |-> 1, suffix |-> ".PNG"])
    /\ <<1, ".PNG">> \in DOMAIN assets.local
    /\ assets.local[<<1, ".PNG">>] = resp.file.data
    /\ 1 \notin DOMAIN assets.remote

\* C13: upload_player_photo for a stored player with a file whose suffix,
\* lower-cased, is none of .jpg, .jpeg, .png, .gif, .webp answers 400 and
\* leaves the players' rows (photo_url, updated_at) and every stored photo
\* asset unchanged.
C13_ExtensionRejectedFirst ==
    [][(/\ resp'.op = "upload_player_photo"
        /\ resp'.id \in DOMAIN players
        /\ Lower(resp'.file.suffix) \notin
              {".jpg", ".jpeg", ".png", ".gif", ".webp"})
         => /\ resp'.status = 400
            /\ players' = players
            /\ assets' = assets
            /\ now' = now]_vars

\* A .txt upload has been refused for a player whose photo is stored
\* locally, with the outside calls set to succeed.
C13_Witness ==
    /\ resp.op = "upload_player_photo" /\ resp.status = 400
    /\ resp.file.suffix = ".txt"
    /\ resp.env = CalmEnv
    /\ resp.id \in DOMAIN players
    /\ ~IsNone(players[resp.id].photo_url)
    /\ ~IsCloudinary(The(players[resp.id].photo_url))
    /\ <<resp.id, The(players[resp.id].photo_url).suffix>> \in DOMAIN assets.local

\* C14: for a player whose photo_url is set, a failure to delete the photo
\* asset is not surfaced: delete_player removes the player and answers 200,
\* and upload_player_photo with an accepted file answers 200 whenever the
\* new photo can be stored.
C14_PhotoDeletionBestEffort ==
    [][/\ (/\ resp'.op = "delete_player"
           /\ resp'.id \in DOMAIN players
           /\ ~IsNone(players[resp'.id].photo_url))
            => /\ resp'.status = 200
               /\ players' = [i \in DOMAIN players \ {resp'.id} |-> players[i]]
       /\ (/\ resp'.op = "upload_player_photo"
           /\ resp'.id \in DOMAIN players
           /\ ~IsNone(players[resp'.id].photo_url)
           /\ Lower(resp'.file.suffix) \in
                 {".jpg", ".jpeg", ".png", ".gif", ".webp"}
           /\ (resp'.env.upload = "ok" \/ resp'.env.write = "ok"))
            => resp'.status = 200]_vars

\* Some entry of the batch carries another partita_id than the request's.
MismatchedEntry(q) ==
    \E i \in 1..Len(q.request) : q.request[i].partita_id # q.partita_id

\* C15 as stated: while update_formazioni_by_partita serves a batch with an
\* entry whose partita_id is not the path's, no step of the request changes
\* the stored lineup entries, and the request ends with 400.
C15_MismatchBadRequest ==
    [][\A r \in Sessions :
         (Replacing(r) /\ Stepped(r) /\ MismatchedEntry(reqs[r]))
         => /\ formazioni' = formazioni
            /\ (Ends(r) => resp'.status = 400)]_vars

\* C15 amended: while update_formazioni_by_partita serves a batch with an
\* entry whose partita_id is not the path's, no step of the request changes
\* the stored lineup entries, and the request ends with 400, or with 404
\* when the first refused entry of the batch is one with the path's
\* partita_id and a missing player.
C15_MismatchRolledBack ==
    [][\A r \in Sessions :
         (Replacing(r) /\ Stepped(r) /\ MismatchedEntry(reqs[r]))
         => /\ formazioni' = formazioni
            /\ (Ends(r) =>
                 resp'.status =
                    IF FirstRefusalIsMissingPlayer(reqs[r].request,
                                                   reqs[r].partita_id)
                    THEN 404 ELSE 400)]_vars

\* A replace refused at its second entry for its partita_id, after the
\* delete of the two stored entries and the flush of its first entry: the
\* two stored entries are the lineup again.
C15_Witness ==
    /\ resp.op = "update_formazioni_by_partita"
    /\ resp.status = 400 /\ resp.failed = 2
    /\ ~IsNone(resp.entry) /\ The(resp.entry).partita_id # resp.partita_id
    /\ formazioni = {StoredEntry(1, 1), StoredEntry(2, 2)}
    /\ seqs.formazione = 3

\* C16: every stored lineup entry's giocatore_id names a stored player, and
\* get_formazioni_by_partita has not answered 500.
C16_LineupPlayersExist ==
    /\ \A f \in formazioni : f.giocatore_id \in DOMAIN players
    /\ resp.op = "get_formazioni_by_partita" => resp.status # 500

\* delete_player has been refused for a player a stored lineup entry names,
\* and the player is still stored.
C16_Witness ==
    /\ resp.op = "delete_player" /\ resp.status = 500
    /\ resp.id \in DOMAIN players
    /\ \E f \in formazioni : f.giocatore_id = resp.id

\* Row `f` is entry `e` as stored.
StoredAs(f, e) ==
    /\ f.partita_id = e.partita_id /\ f.giocatore_id = e.giocatore_id
    /\ f.squadra = e.squadra /\ f.numero_maglia = e.numero_maglia
    /\ f.capitano = e.capitano

\* C17: create_formazione takes the entries in order and commits each on its
\* own: at every step the entries before the current one are stored, an
\* insert that is accepted adds the current entry's row alone, and a step
\* that refuses the current entry (404 for a missing partita or player, 400
\* for a stored pair) ends the request at that entry and stores nothing.
C17_CreateCommitsEachEntry ==
    [][\A r \in Sessions :
         (Creating(r) /\ Stepped(r)) =>
           LET q == reqs[r] IN
           /\ Len(q.created) = q.k
           /\ \A i \in 1..q.k : /\ q.created[i] \in formazioni'
                                /\ StoredAs(q.created[i], q.request[i])
           /\ (Ends(r) /\ resp'.status # 200) =>
                 /\ resp'.failed = q.k + 1
                 /\ formazioni' = formazioni
                 /\ resp'.status =
                       IF \/ CurrentEntry(q).partita_id \notin DOMAIN partite
                          \/ CurrentEntry(q).giocatore_id \notin DOMAIN players
                       THEN 404 ELSE 400
           /\ (Ends(r) /\ resp'.status = 200) =>
                 q.k = Len(q.request) /\ formazioni' = formazioni
           /\ (~Ends(r) /\ q.pc = "insert") =>
                 /\ \E f \in formazioni' \ formazioni :
                       /\ StoredAs(f, CurrentEntry(q))
                       /\ formazioni' = formazioni \cup {f}
                 /\ reqs'[r].k = q.k + 1]_vars

\* create_formazione has been refused its second entry, a stored pair, and
\* the row of its first entry, inserted just before, is stored.
C17_Witness ==
    /\ resp.op = "create_formazione" /\ resp.status = 400 /\ resp.failed = 2
    /\ \E f \in formazioni :
          /\ f.id = seqs.formazione - 1
          /\ KeyOf(f) # KeyOf(The(resp.entry))
    /\ KeyOf(The(resp.entry)) \in Keys(formazioni)

\* C18: a stored player's photo_url, when set, designates an asset that
\* exists where the URL points: on the image host or under uploads/players.
C18_PhotoUrlDesignatesAsset ==
    \A id \in DOMAIN players :
        LET photo_url == players[id].photo_url IN
        ~IsNone(photo_url) =>
            IF The(photo_url).host = "res.cloudinary.com"
            THEN The(photo_url).stem \in DOMAIN assets.remote
            ELSE <<The(photo_url).stem, The(photo_url).suffix>>
                    \in DOMAIN assets.local

============================================================================
